---- MODULE Spec2Model ----
(***************************************************************************)
(* The bookshelf manager of src/main.py and src/extract_text.py as a state *)
(* machine.  One action is one invocation of the command line program:     *)
(* main() runs setup_shelf() and then the handler of the subcommand.       *)
(*                                                                         *)
(* Text is a sequence of one-character strings.  A file's content is such  *)
(* a sequence; a file name is the pair <<stem, extension>> (Path.name is   *)
(* stem.extension, Path.suffix the extension).  The record ids used here   *)
(* are one character long, so the characters of id are <<id>>.             *)
(***************************************************************************)
EXTENDS Integers, Sequences, FiniteSets, TLC

\* Wall-clock readings are 0..MaxClock.
MaxClock == 1

\* Resolution of the modelled clock: readings per whole second.
TicksPerSecond == 2

Quote == "\""
Backslash == "\\"
LF == "\n"
CR == "\r"
\* A byte that is not valid UTF-8.
BadByte == "0xff"
\* The lone surrogate that such a byte of a command line argument is decoded to
\* (surrogateescape); UTF-8 cannot encode it.
BadChar == "U+DCFF"

----------------------------------------------------------------------------
(* Python values *)

\* Optional[str]: None, or a string.
None == <<>>
Some(s) == <<s>>

\* Truth value of an Optional[str] (None and "" are falsy).
Truthy(o) == o # None /\ o[1] # <<>>

\* `args.memo or ""`.
OrEmpty(o) == IF Truthy(o) THEN o[1] ELSE <<>>

----------------------------------------------------------------------------
(* Path.read_text / Path.write_text *)

RECURSIVE UniversalNewlines(_)
\* Text mode reading translates "\r\n" and a lone "\r" to "\n".
UniversalNewlines(s) ==
    IF s = <<>> THEN <<>>
    ELSE IF s[1] = CR
         THEN IF Len(s) > 1 /\ s[2] = LF
              THEN <<LF>> \o UniversalNewlines(SubSeq(s, 3, Len(s)))
              ELSE <<LF>> \o UniversalNewlines(Tail(s))
         ELSE <<s[1]>> \o UniversalNewlines(Tail(s))

\* Path.read_text(): UTF-8 decoding fails on an invalid byte (UnicodeDecodeError).
read_text(bytes) ==
    IF \E i \in DOMAIN bytes : bytes[i] = BadByte
    THEN [ok |-> FALSE, text |-> <<>>]
    ELSE [ok |-> TRUE, text |-> UniversalNewlines(bytes)]

\* Path.write_text() on POSIX: "\n" is written as it is, valid text encodes to itself.
write_text(text) == text

----------------------------------------------------------------------------
(* json.dump(..., ensure_ascii=False) and json.load.  Insignificant white  *)
(* space (indent=4) is left out of the document.  A dict is the sequence   *)
(* of its <<key, value>> pairs in insertion order.                         *)

JsonEscapeChar(c) ==
    CASE c = Quote -> <<Backslash, Quote>>
      [] c = Backslash -> <<Backslash, Backslash>>
      [] c = LF -> <<Backslash, "n">>
      [] c = CR -> <<Backslash, "r">>
      [] OTHER -> <<c>>

RECURSIVE JsonEscape(_)
JsonEscape(s) ==
    IF s = <<>> THEN <<>> ELSE JsonEscapeChar(s[1]) \o JsonEscape(Tail(s))

JsonString(s) == <<Quote>> \o JsonEscape(s) \o <<Quote>>

RECURSIVE JsonMembers(_)
JsonMembers(obj) ==
    IF obj = <<>> THEN <<>>
    ELSE JsonString(obj[1][1]) \o <<":">> \o JsonString(obj[1][2])
         \o (IF Len(obj) > 1 THEN <<",">> ELSE <<>>)
         \o JsonMembers(Tail(obj))

json_dumps(obj) == <<"{">> \o JsonMembers(obj) \o <<"}">>

\* The text can be encoded as UTF-8.
Encodable(s) == \A i \in DOMAIN s : s[i] # BadChar

\* The first member whose value cannot be encoded, 0 if there is none.
FirstUnencodable(obj) ==
    IF \A i \in DOMAIN obj : Encodable(obj[i][2]) THEN 0
    ELSE CHOOSE i \in DOMAIN obj :
            /\ ~Encodable(obj[i][2])
            /\ \A j \in 1..(i - 1) : Encodable(obj[j][2])

\* open(json_file, "w", encoding="utf-8") and json.dump(obj, f): the file is
\* truncated and the chunks of the document are written one by one; a value that
\* cannot be encoded raises UnicodeEncodeError and leaves the chunks before it.
json_dump(obj) ==
    LET b == FirstUnencodable(obj) IN
    IF b = 0 THEN [ok |-> TRUE, doc |-> json_dumps(obj)]
    ELSE [ok |-> FALSE,
          doc |-> <<"{">> \o JsonMembers(SubSeq(obj, 1, b - 1))
                   \o (IF b > 1 THEN <<",">> ELSE <<>>)
                   \o JsonString(obj[b][1]) \o <<":">>]

DictHas(obj, k) == \E i \in DOMAIN obj : obj[i][1] = k

DictGet(obj, k) == obj[CHOOSE i \in DOMAIN obj : obj[i][1] = k][2]

DictSet(obj, k, v) ==
    IF DictHas(obj, k)
    THEN [i \in DOMAIN obj |-> IF obj[i][1] = k THEN <<k, v>> ELSE obj[i]]
    ELSE Append(obj, <<k, v>>)

JsonFail == [ok |-> FALSE, val |-> <<>>, next |-> 0]

RECURSIVE ScanString(_, _, _)
\* The characters of a JSON string up to its closing quote; i is the next index to read.
ScanString(doc, i, acc) ==
    IF i > Len(doc) THEN JsonFail
    ELSE IF doc[i] = Quote THEN [ok |-> TRUE, val |-> acc, next |-> i + 1]
    ELSE IF doc[i] = Backslash
         THEN IF i + 1 > Len(doc) THEN JsonFail
              ELSE IF doc[i + 1] \in {Quote, Backslash}
                   THEN ScanString(doc, i + 2, Append(acc, doc[i + 1]))
                   ELSE IF doc[i + 1] = "n" THEN ScanString(doc, i + 2, Append(acc, LF))
                   ELSE IF doc[i + 1] = "r" THEN ScanString(doc, i + 2, Append(acc, CR))
                   ELSE JsonFail
    ELSE IF doc[i] \in {LF, CR} THEN JsonFail
    ELSE ScanString(doc, i + 1, Append(acc, doc[i]))

ParseString(doc, i) ==
    IF i <= Len(doc) /\ doc[i] = Quote THEN ScanString(doc, i + 1, <<>>) ELSE JsonFail

RECURSIVE ParseMembers(_, _, _)
ParseMembers(doc, i, acc) ==
    LET k == ParseString(doc, i) IN
    IF ~k.ok \/ k.next > Len(doc) \/ doc[k.next] # ":" THEN JsonFail
    ELSE LET v == ParseString(doc, k.next + 1) IN
         IF ~v.ok \/ v.next > Len(doc) THEN JsonFail
         ELSE IF doc[v.next] = ","
              THEN ParseMembers(doc, v.next + 1, DictSet(acc, k.val, v.val))
              ELSE IF doc[v.next] = "}" /\ v.next = Len(doc)
                   THEN [ok |-> TRUE, val |-> DictSet(acc, k.val, v.val), next |-> v.next + 1]
                   ELSE JsonFail

\* json.load of a document; ok is FALSE where json.load raises JSONDecodeError.
json_loads(doc) ==
    IF Len(doc) < 2 \/ doc[1] # "{" THEN JsonFail
    ELSE IF Len(doc) = 2 /\ doc[2] = "}" THEN [ok |-> TRUE, val |-> <<>>, next |-> 3]
    ELSE ParseMembers(doc, 2, <<>>)

----------------------------------------------------------------------------
(* datetime.now().isoformat() *)

Digits == <<"0", "1", "2", "3", "4", "5", "6", "7", "8", "9">>

\* isoformat() leaves the fraction out when it is zero.
isoformat(t) ==
    IF t % TicksPerSecond = 0
    THEN <<Digits[(t \div TicksPerSecond) + 1]>>
    ELSE <<Digits[(t \div TicksPerSecond) + 1], ".", Digits[(t % TicksPerSecond) + 1]>>

----------------------------------------------------------------------------
(* The file system.  dirs maps the name of each directory directly under   *)
(* SHELF_DIR to its files, a function from file names to contents.  The    *)
(* program never puts a regular file directly under SHELF_DIR; files is    *)
(* the set of names of those that something else left there.               *)

Put(f, k, v) == [x \in (DOMAIN f) \cup {k} |-> IF x = k THEN v ELSE f[x]]

Remove(f, k) == [x \in (DOMAIN f) \ {k} |-> f[x]]

\* The ids of the model: two record names, and "." (SHELF_DIR / "." is SHELF_DIR).
Ids == {"a", "b", "."}

\* (SHELF_DIR / book_id).exists(), SHELF_DIR existing.
BookDirExists(dirs, id) == id = "." \/ id \in DOMAIN dirs

\* The files of SHELF_DIR / book_id.
BookFiles(dirs, id) == IF id \in DOMAIN dirs THEN dirs[id] ELSE <<>>

\* What a command leaves: the store, the exit status, the kind of error logged
\* ("exception": an uncaught exception, which ends the process with status 1)
\* and the records written to standard output.
Result(root, d, exit, err, out) ==
    [root |-> root, dirs |-> d, exit |-> exit, err |-> err, out |-> out]

\* setup_shelf(): SHELF_DIR exists afterwards.
setup_shelf(root) == TRUE

----------------------------------------------------------------------------
(* extract_text.py *)

\* str.lower() on the extensions of the model.
Lower(ext) == IF ext = "TXT" THEN "txt" ELSE IF ext = "PDF" THEN "pdf" ELSE ext

\* What the PDF or EPUB library and the try/except around it return: None after a
\* caught failure, or the text found (possibly empty).
LibOutcomes == {None, Some(<<>>), Some(<<"t">>)}

\* extract_text(path): raised is TRUE where the exception of read_text propagates.
extract_text(cwd, path, lib) ==
    LET suffix == Lower(path[2]) IN
    CASE suffix = "pdf" -> [raised |-> FALSE, text |-> lib]
      [] suffix = "epub" -> [raised |-> FALSE, text |-> lib]
      [] suffix = "txt" ->
            LET r == read_text(cwd[path]) IN
            IF r.ok THEN [raised |-> FALSE, text |-> Some(r.text)]
            ELSE [raised |-> TRUE, text |-> None]
      [] OTHER -> [raised |-> FALSE, text |-> None]

----------------------------------------------------------------------------
(* main.py: the handlers.  main() has run setup_shelf(), SHELF_DIR exists. *)

K_id == <<"id">>
K_title == <<"title">>
K_memo == <<"memo">>
K_created_at == <<"created_at">>
K_updated_at == <<"updated_at">>

JsonName(id) == <<id, "json">>
TextName(id) == <<id, "txt">>

\* A metadata dict with title and memo exchanged.
NewMetadata_Swapped(id, title, memo, stamp) ==
    << <<K_id, <<id>>>>, <<K_title, memo>>, <<K_memo, title>>,
       <<K_created_at, stamp>>, <<K_updated_at, stamp>> >>

\* The metadata dict of handle_add.
NewMetadata(id, title, memo, stamp) ==
    << <<K_id, <<id>>>>, <<K_title, title>>, <<K_memo, memo>>,
       <<K_created_at, stamp>>, <<K_updated_at, stamp>> >>

\* `if text:` of handle_add: the text file is written for a non-empty text only.
WritesText(text) == Truthy(text)

\* No ID collision check.
IdInUse_Never(dirs, id) == FALSE

\* The ID collision check of handle_add.
IdInUse(dirs, id) == BookDirExists(dirs, id)

handle_add(dirs, cwd, path, id, title, memo, lib, t) ==
    IF path \notin DOMAIN cwd THEN Result(TRUE, dirs, 1, "source_missing", <<>>)
    ELSE IF IdInUse(dirs, id) THEN Result(TRUE, dirs, 1, "id_in_use", <<>>)
    ELSE LET made == BookFiles(dirs, id)
             copied == Put(made, path, cwd[path])
             x == extract_text(cwd, path, lib)
             withText == IF WritesText(x.text)
                         THEN Put(copied, TextName(id), write_text(x.text[1]))
                         ELSE copied
             metadata == NewMetadata(id, title, memo, isoformat(t))
             w == json_dump(metadata)
             withMeta == Put(withText, JsonName(id), w.doc)
         IN  IF x.raised
             THEN Result(TRUE, Put(dirs, id, copied), 1, "exception", <<>>)
             ELSE IF ~w.ok
                  THEN Result(TRUE, Put(dirs, id, withMeta), 1, "exception", <<>>)
                  ELSE Result(TRUE, Put(dirs, id, withMeta), 0, "", <<>>)

handle_show(dirs, id) ==
    IF ~BookDirExists(dirs, id) THEN Result(TRUE, dirs, 1, "not_found", <<>>)
    ELSE IF TextName(id) \notin DOMAIN BookFiles(dirs, id)
         THEN Result(TRUE, dirs, 1, "no_text_file", <<>>)
         ELSE LET r == read_text(BookFiles(dirs, id)[TextName(id)]) IN
              IF r.ok THEN Result(TRUE, dirs, 0, "", << <<r.text>> >>)
              ELSE Result(TRUE, dirs, 1, "exception", <<>>)

\* Field updates that take every supplied value, the empty string included.
EditedMetadata_IfNotNone(metadata, title, memo, stamp) ==
    LET m1 == IF title # None THEN DictSet(metadata, K_title, title[1]) ELSE metadata
        m2 == IF memo # None THEN DictSet(m1, K_memo, memo[1]) ELSE m1
    IN  DictSet(m2, K_updated_at, stamp)

\* Field updates that leave updated_at as it was.
EditedMetadata_KeepsStamp(metadata, title, memo, stamp) ==
    LET m1 == IF Truthy(title) THEN DictSet(metadata, K_title, title[1]) ELSE metadata
    IN  IF Truthy(memo) THEN DictSet(m1, K_memo, memo[1]) ELSE m1

\* The field updates of handle_edit.
EditedMetadata(metadata, title, memo, stamp) ==
    LET m1 == IF Truthy(title) THEN DictSet(metadata, K_title, title[1]) ELSE metadata
        m2 == IF Truthy(memo) THEN DictSet(m1, K_memo, memo[1]) ELSE m1
    IN  DictSet(m2, K_updated_at, stamp)

handle_edit(dirs, id, title, memo, t) ==
    IF ~BookDirExists(dirs, id) THEN Result(TRUE, dirs, 1, "not_found", <<>>)
    ELSE IF JsonName(id) \notin DOMAIN BookFiles(dirs, id)
         THEN Result(TRUE, dirs, 1, "no_metadata_file", <<>>)
         ELSE LET r == json_loads(BookFiles(dirs, id)[JsonName(id)]) IN
              IF ~r.ok THEN Result(TRUE, dirs, 1, "exception", <<>>)
              ELSE LET metadata == EditedMetadata(r.val, title, memo, isoformat(t))
                       w == json_dump(metadata)
                   IN  Result(TRUE,
                              Put(dirs, id, Put(dirs[id], JsonName(id), w.doc)),
                              IF w.ok THEN 0 ELSE 1,
                              IF w.ok THEN "" ELSE "exception", <<>>)

\* shutil.rmtree(book_dir); with SHELF_DIR itself go the regular files in it.
rmtree(dirs, id) ==
    IF id = "." THEN [root |-> FALSE, dirs |-> <<>>]
    ELSE [root |-> TRUE, dirs |-> Remove(dirs, id)]

handle_delete(dirs, id) ==
    IF ~BookDirExists(dirs, id) THEN Result(TRUE, dirs, 1, "not_found", <<>>)
    ELSE LET r == rmtree(dirs, id) IN Result(r.root, r.dirs, 0, "", <<>>)

handle_info(dirs, id) ==
    IF ~BookDirExists(dirs, id) THEN Result(TRUE, dirs, 1, "not_found", <<>>)
    ELSE IF JsonName(id) \notin DOMAIN BookFiles(dirs, id)
         THEN Result(TRUE, dirs, 1, "no_metadata_file", <<>>)
         ELSE LET r == json_loads(BookFiles(dirs, id)[JsonName(id)]) IN
              IF ~r.ok THEN Result(TRUE, dirs, 1, "exception", <<>>)
              ELSE Result(TRUE, dirs, 0, "", << <<json_dumps(r.val)>> >>)

\* The fieldnames of the csv.DictWriter.
FieldNames == <<K_id, K_title, K_memo, K_created_at, K_updated_at>>

\* The orders in which iterdir() may yield the entries S.
Orders(S) ==
    {s \in [1..Cardinality(S) -> S] : \A i, j \in DOMAIN s : i # j => s[i] # s[j]}

RECURSIVE LoadBooks(_, _, _)
\* The loop of handle_list over the entries of SHELF_DIR in order; an entry that
\* is_dir() is one of dirs.
LoadBooks(dirs, order, books) ==
    IF order = <<>> THEN [ok |-> TRUE, books |-> books]
    ELSE LET name == order[1] IN
         IF name \notin DOMAIN dirs
         THEN LoadBooks(dirs, Tail(order), books)
         ELSE IF JsonName(name) \notin DOMAIN dirs[name]
         THEN LoadBooks(dirs, Tail(order), books)
         ELSE LET r == json_loads(dirs[name][JsonName(name)]) IN
              IF ~r.ok THEN [ok |-> FALSE, books |-> books]
              ELSE LoadBooks(dirs, Tail(order), Append(books, r.val))

\* DictWriter._dict_to_list: a key outside fieldnames raises ValueError, a missing
\* one is written as "".
RowHasExtras(book) ==
    \E i \in DOMAIN book : \A j \in DOMAIN FieldNames : book[i][1] # FieldNames[j]

CsvRow(book) ==
    [j \in DOMAIN FieldNames |->
        IF DictHas(book, FieldNames[j]) THEN DictGet(book, FieldNames[j]) ELSE <<>>]

RECURSIVE WriteRows(_, _)
\* writerows: the rows before a failing one are written.
WriteRows(books, out) ==
    IF books = <<>> THEN [ok |-> TRUE, out |-> out]
    ELSE IF RowHasExtras(books[1]) THEN [ok |-> FALSE, out |-> out]
    ELSE WriteRows(Tail(books), Append(out, CsvRow(books[1])))

\* `not SHELF_DIR.exists() or not any(SHELF_DIR.iterdir())`, SHELF_DIR existing.
ShelfIsEmpty(dirs, files) == DOMAIN dirs = {} /\ files = {}

handle_list(dirs, files, order) ==
    IF ShelfIsEmpty(dirs, files) THEN Result(TRUE, dirs, 0, "empty", <<>>)
    ELSE LET l == LoadBooks(dirs, order, <<>>) IN
         IF ~l.ok THEN Result(TRUE, dirs, 1, "exception", <<>>)
         ELSE LET w == WriteRows(l.books, <<FieldNames>>) IN
              Result(TRUE, dirs, IF w.ok THEN 0 ELSE 1,
                     IF w.ok THEN "" ELSE "exception", w.out)

----------------------------------------------------------------------------
(* main(): setup_shelf(), then the handler of the subcommand.  Each run_*  *)
(* is what one invocation of the program returns from the store dirs.      *)

run_add(dirs, cwd, path, id, title, memo, lib, t) ==
    handle_add(dirs, cwd, path, id, title, OrEmpty(memo), lib, t)

run_show(dirs, id) == handle_show(dirs, id)

run_edit(dirs, id, title, memo, t) == handle_edit(dirs, id, title, memo, t)

run_delete(dirs, id) == handle_delete(dirs, id)

run_list(dirs, files, order) == handle_list(dirs, files, order)

run_info(dirs, id) == handle_info(dirs, id)

----------------------------------------------------------------------------
(* The state machine.  A command runs in one step from the shell prompt    *)
(* and leaves its exit status and output in last; the next step returns to *)
(* the prompt.                                                             *)

VARIABLES
    rootExists,   \* whether SHELF_DIR exists
    dirs,         \* the directories under SHELF_DIR and their files
    files,        \* the names of the regular files directly under SHELF_DIR
    cwd,          \* the source files of the working directory, by name
    ids,          \* the ids given on the command line in this run
    raw,          \* whether titles given in this run may hold a byte that is not UTF-8
    now,          \* the reading of the local wall clock
    last,         \* the command that has just run: its arguments and what it returned
    procs         \* the invocations that are running at the same time, by process

vars == <<rootExists, dirs, files, cwd, ids, raw, now, last, procs>>

\* A working directory with a readable and an unreadable text file.
TwoFiles == (<<"s", "TXT">> :> <<"h", "i">>) @@ (<<"x", "txt">> :> <<BadByte>>)

\* Working directories with one source file.
OneFile ==
    { <<"e", "txt">> :> <<>>,
      <<"c", "txt">> :> <<"h", CR, LF, "i">>,
      <<"a", "txt">> :> <<"h", CR>>,
      <<"a", "json">> :> <<"J">>,
      <<"s", "md">> :> <<"M">>,
      <<"s", "PDF">> :> <<"P">>,
      <<"s", "epub">> :> <<"E">> }

\* A regular file that something other than this program left in SHELF_DIR.
StrayFile == ".DS_Store"

\* The runs of the model: two records from the two files, with or without a stray
\* file in SHELF_DIR; one record from one file; one record with titles that may
\* hold a byte that is not UTF-8.
Scenarios ==
    {[cwd |-> TwoFiles, ids |-> Ids, files |-> f, raw |-> FALSE] : f \in {{}, {StrayFile}}}
        \cup {[cwd |-> e, ids |-> {"a", "."}, files |-> {}, raw |-> FALSE] : e \in OneFile}
        \cup {[cwd |-> (<<"s", "TXT">> :> <<"h", "i">>), ids |-> {"a"}, files |-> {},
               raw |-> TRUE]}

\* A path that names no file.
MissingPath == <<"nosuch", "txt">>

\* Command line values of the model.
AddTitles == {<<"T", Quote, Backslash>>}
AddMemos == {None, Some(<<"m", LF>>)}
EditTitles == {None, Some(<<>>), Some(<<"N">>)}
EditMemos == {None, Some(<<>>), Some(<<"m", LF>>)}
\* A title given with a byte that is not UTF-8.
RawTitle == <<"T", BadChar>>
AddTitlesOf(r) == IF r THEN AddTitles \cup {RawTitle} ELSE AddTitles
EditTitlesOf(r) == IF r THEN EditTitles \cup {Some(RawTitle)} ELSE EditTitles

\* The outcomes of the third-party parser on the file at path.
LibOutcomesOf(path) ==
    IF Lower(path[2]) \in {"pdf", "epub"} THEN LibOutcomes ELSE {None}

Command(op, id, path, title, memo, r) ==
    [op |-> op, id |-> id, path |-> path, title |-> title, memo |-> memo,
     exit |-> r.exit, err |-> r.err, out |-> r.out]

\* At the shell prompt.
Prompt == Command("none", "", <<>>, None, None, Result(TRUE, <<>>, 0, "", <<>>))

Init ==
    /\ dirs = <<>>
    /\ \E s \in Scenarios : cwd = s.cwd /\ ids = s.ids /\ files = s.files /\ raw = s.raw
    /\ rootExists = (files # {})
    /\ now \in 0..MaxClock
    /\ last = Prompt
    /\ procs = <<>>

\* main() for one command: r is what the handler returned.
Ran(op, id, path, title, memo, r) ==
    /\ last = Prompt
    /\ setup_shelf(rootExists)
    /\ rootExists' = r.root
    /\ dirs' = r.dirs
    /\ files' = (IF r.root THEN files ELSE {})
    /\ last' = Command(op, id, path, title, memo, r)
    /\ UNCHANGED <<cwd, ids, raw, now, procs>>

Add ==
    \E path \in (DOMAIN cwd) \cup {MissingPath}, id \in ids,
       title \in AddTitlesOf(raw), memo \in AddMemos :
        \E lib \in LibOutcomesOf(path) :
            Ran("add", id, path, Some(title), memo,
                run_add(dirs, cwd, path, id, title, memo, lib, now))

Show == \E id \in ids : Ran("show", id, <<>>, None, None, run_show(dirs, id))

Edit ==
    \E id \in ids, title \in EditTitlesOf(raw), memo \in EditMemos :
        Ran("edit", id, <<>>, title, memo, run_edit(dirs, id, title, memo, now))

Delete == \E id \in ids : Ran("delete", id, <<>>, None, None, run_delete(dirs, id))

List ==
    \E order \in Orders((DOMAIN dirs) \cup files) :
        Ran("list", "", <<>>, None, None, run_list(dirs, files, order))

Info == \E id \in ids : Ran("info", id, <<>>, None, None, run_info(dirs, id))

\* The process has exited; the shell prompts again.
Exit ==
    /\ last # Prompt
    /\ last' = Prompt
    /\ UNCHANGED <<rootExists, dirs, files, cwd, ids, raw, now, procs>>

\* Time passes between two commands.
ClockAdvance ==
    /\ last = Prompt
    /\ now < MaxClock
    /\ now' = now + 1
    /\ UNCHANGED <<rootExists, dirs, files, cwd, ids, raw, last, procs>>

\* The local wall clock is set back (the end of daylight saving time, a clock
\* correction): datetime.now() is naive local time, not a monotonic clock.
ClockStepBack ==
    /\ last = Prompt
    /\ now > 0
    /\ now' = now - 1
    /\ UNCHANGED <<rootExists, dirs, files, cwd, ids, raw, last, procs>>

Next ==
    \/ Add
    \/ Show
    \/ Edit
    \/ Delete
    \/ List
    \/ Info
    \/ Exit
    \/ ClockAdvance
    \/ ClockStepBack

Spec == Init /\ [][Next]_vars

----------------------------------------------------------------------------
(* Two invocations of add for the same id running at the same time.  Each  *)
(* step of a process is one statement of main() and handle_add; the steps  *)
(* of the two processes interleave in any order.                           *)

Procs == {1, 2}

RaceId == "a"
RacePath == <<"s", "TXT">>

\* The two invocations give titles of different lengths.
RaceTitle(p) == IF p = 1 THEN <<"T">> ELSE <<"U", "U">>

\* A mkdir that raises FileExistsError for a directory that exists.
mkdir_NotExistOk(d, id) ==
    [ok |-> id \notin DOMAIN d, dirs |-> IF id \in DOMAIN d THEN d ELSE Put(d, id, <<>>)]

\* book_dir.mkdir(exist_ok=True): no error for a directory that exists.
mkdir(d, id) ==
    [ok |-> TRUE, dirs |-> IF id \in DOMAIN d THEN d ELSE Put(d, id, <<>>)]

\* A write of doc at offset 0 of a file that holds old: what lies beyond the end
\* of doc stays.
Overwrite(old, doc) == doc \o SubSeq(old, Len(doc) + 1, Len(old))

\* The metadata dict that process p builds.
RaceMetadata(p) == NewMetadata(RaceId, RaceTitle(p), <<>>, procs[p].stamp)

\* Process p goes to pc with the other fields of its record set by f.
Goto(p, pc, f) == procs' = [procs EXCEPT ![p] = [f EXCEPT !.pc = pc]]

\* Process p ends with this exit status.
Ends(p, exit) == Goto(p, "done", [procs[p] EXCEPT !.exit = exit])

RaceFrame == UNCHANGED <<files, cwd, ids, raw, last>>

InitRace ==
    /\ rootExists = FALSE
    /\ dirs = <<>>
    /\ files = {}
    /\ cwd = (RacePath :> <<"h", "i">>)
    /\ ids = {RaceId}
    /\ raw = FALSE
    /\ now \in 0..MaxClock
    /\ last = Prompt
    /\ procs = [p \in Procs |->
                  [pc |-> "setup", passed |-> FALSE, text |-> None, stamp |-> <<>>,
                   wrote |-> 0, exit |-> 0]]

\* main(): setup_shelf().
RaceSetup(p) ==
    /\ procs[p].pc = "setup"
    /\ setup_shelf(rootExists)
    /\ rootExists' = TRUE
    /\ Goto(p, "source", procs[p])
    /\ UNCHANGED <<dirs, now>> /\ RaceFrame

\* handle_add: the check of the source file.
RaceCheckSource(p) ==
    /\ procs[p].pc = "source"
    /\ IF RacePath \in DOMAIN cwd THEN Goto(p, "id", procs[p]) ELSE Ends(p, 1)
    /\ UNCHANGED <<rootExists, dirs, now>> /\ RaceFrame

\* handle_add: the ID collision check.
RaceCheckId(p) ==
    /\ procs[p].pc = "id"
    /\ IF IdInUse(dirs, RaceId) THEN Ends(p, 1)
       ELSE Goto(p, "mkdir", [procs[p] EXCEPT !.passed = TRUE])
    /\ UNCHANGED <<rootExists, dirs, now>> /\ RaceFrame

\* handle_add: book_dir.mkdir(exist_ok=True).
RaceMkdir(p) ==
    /\ procs[p].pc = "mkdir"
    /\ LET r == mkdir(dirs, RaceId) IN
       IF r.ok THEN dirs' = r.dirs /\ Goto(p, "copy", procs[p])
       ELSE dirs' = dirs /\ Ends(p, 1)
    /\ UNCHANGED <<rootExists, now>> /\ RaceFrame

\* handle_add: shutil.copy2.
RaceCopy(p) ==
    /\ procs[p].pc = "copy"
    /\ dirs' = Put(dirs, RaceId, Put(dirs[RaceId], RacePath, cwd[RacePath]))
    /\ Goto(p, "extract", procs[p])
    /\ UNCHANGED <<rootExists, now>> /\ RaceFrame

\* handle_add: extract_text(book_path).
RaceExtract(p) ==
    /\ procs[p].pc = "extract"
    /\ LET x == extract_text(cwd, RacePath, None) IN
       IF x.raised THEN Ends(p, 1)
       ELSE Goto(p, "text", [procs[p] EXCEPT !.text = x.text])
    /\ UNCHANGED <<rootExists, dirs, now>> /\ RaceFrame

\* handle_add: `if text:` and text_file.write_text(text).
RaceWriteText(p) ==
    /\ procs[p].pc = "text"
    /\ dirs' = IF WritesText(procs[p].text)
               THEN Put(dirs, RaceId,
                        Put(dirs[RaceId], TextName(RaceId), write_text(procs[p].text[1])))
               ELSE dirs
    /\ Goto(p, "clock", procs[p])
    /\ UNCHANGED <<rootExists, now>> /\ RaceFrame

\* handle_add: now = datetime.now().isoformat().
RaceClock(p) ==
    /\ procs[p].pc = "clock"
    /\ Goto(p, "open", [procs[p] EXCEPT !.stamp = isoformat(now)])
    /\ UNCHANGED <<rootExists, dirs, now>> /\ RaceFrame

\* handle_add: open(json_file, "w") creates the file or truncates it.
RaceOpen(p) ==
    /\ procs[p].pc = "open"
    /\ dirs' = Put(dirs, RaceId, Put(dirs[RaceId], JsonName(RaceId), <<>>))
    /\ Goto(p, "dump", procs[p])
    /\ UNCHANGED <<rootExists, now>> /\ RaceFrame

\* handle_add: json.dump and the end of the with block, which writes the buffered
\* document at offset 0 of the file; then the process ends.
RaceDump(p) ==
    /\ procs[p].pc = "dump"
    /\ LET w == json_dump(RaceMetadata(p))
           n == Cardinality({q \in Procs : procs[q].wrote > 0})
       IN  /\ dirs' = Put(dirs, RaceId,
                          Put(dirs[RaceId], JsonName(RaceId),
                              Overwrite(dirs[RaceId][JsonName(RaceId)], w.doc)))
           /\ Goto(p, "done", [procs[p] EXCEPT !.wrote = n + 1,
                                               !.exit = IF w.ok THEN 0 ELSE 1])
    /\ UNCHANGED <<rootExists, now>> /\ RaceFrame

\* Time passes while the two processes run.
RaceTick ==
    /\ now < MaxClock
    /\ now' = now + 1
    /\ UNCHANGED <<rootExists, dirs, procs>> /\ RaceFrame

NextRace ==
    \/ \E p \in Procs : RaceSetup(p)
    \/ \E p \in Procs : RaceCheckSource(p)
    \/ \E p \in Procs : RaceCheckId(p)
    \/ \E p \in Procs : RaceMkdir(p)
    \/ \E p \in Procs : RaceCopy(p)
    \/ \E p \in Procs : RaceExtract(p)
    \/ \E p \in Procs : RaceWriteText(p)
    \/ \E p \in Procs : RaceClock(p)
    \/ \E p \in Procs : RaceOpen(p)
    \/ \E p \in Procs : RaceDump(p)
    \/ RaceTick

SpecRace == InitRace /\ [][NextRace]_vars

----------------------------------------------------------------------------
(* Reading the store and the clock in the properties below *)

\* The record directory d[id] holds its metadata file.
HasMetadata(d, id) == id \in DOMAIN d /\ JsonName(id) \in DOMAIN d[id]

\* The metadata of record id, as json.load reads it.
Metadata(d, id) == json_loads(d[id][JsonName(id)]).val

\* datetime.fromisoformat: the reading a timestamp stands for.
TimeOf(stamp) == CHOOSE t \in 0..MaxClock : isoformat(t) = stamp

\* A value was supplied on the command line and is not the empty string.
SuppliedNonEmpty(o) == o # None /\ Len(o[1]) > 0

----------------------------------------------------------------------------
(* C1 *)

\* C1: after a successful add of an id that was not in the store, info on that id
\* exits 0 and prints metadata whose id, title and memo are the values supplied
\* (memo "" when --memo was omitted) and whose created_at equals updated_at.
C1_CreateThenInfo ==
    (last.op = "add" /\ last.exit = 0) =>
        LET r == run_info(dirs, last.id) IN
        /\ r.exit = 0
        /\ Len(r.out) = 1
        /\ LET m == json_loads(r.out[1][1]) IN
           /\ m.ok
           /\ DictGet(m.val, K_id) = <<last.id>>
           /\ DictGet(m.val, K_title) = last.title[1]
           /\ DictGet(m.val, K_memo) = (IF last.memo = None THEN <<>> ELSE last.memo[1])
           /\ DictGet(m.val, K_created_at) = DictGet(m.val, K_updated_at)

\* An add without --memo, of a title holding a quote and a backslash, has succeeded.
C1_Witness ==
    /\ last.op = "add"
    /\ last.exit = 0
    /\ last.memo = None
    /\ \E i \in DOMAIN last.title[1] : last.title[1][i] = Quote

----------------------------------------------------------------------------
(* C2 *)

\* C2: an add whose id names a directory that exists fails with exit status 1 and
\* leaves every directory and file of the store as it was.
C2_DuplicateIdRejected ==
    [][ (last = Prompt /\ last'.op = "add" /\ BookDirExists(dirs, last'.id))
            => (last'.exit = 1 /\ dirs' = dirs) ]_vars

\* An add of an existing source was refused for the id of a record that has its
\* source copy and its metadata file.
C2_Witness ==
    /\ last.op = "add"
    /\ last.err = "id_in_use"
    /\ last.path \in DOMAIN cwd
    /\ HasMetadata(dirs, last.id)
    /\ Cardinality(DOMAIN dirs[last.id]) >= 2

----------------------------------------------------------------------------
(* C3 *)

\* C3: a successful edit sets title to the new title if a non-empty one was supplied
\* and keeps it otherwise, and the same for memo; no edit, successful or not, gives
\* any record another id or created_at than it had.
C3_EditOverwritesOnlySupplied ==
    [][ (last = Prompt /\ last'.op = "edit") =>
            /\ \A r \in DOMAIN dirs : HasMetadata(dirs, r) =>
                  /\ HasMetadata(dirs', r)
                  /\ \A old \in {json_loads(dirs[r][JsonName(r)])},
                        new \in {json_loads(dirs'[r][JsonName(r)])} :
                         (old.ok /\ new.ok) =>
                             /\ DictGet(new.val, K_id) = DictGet(old.val, K_id)
                             /\ DictGet(new.val, K_created_at)
                                    = DictGet(old.val, K_created_at)
            /\ last'.exit = 0 =>
                  \A old \in {Metadata(dirs, last'.id)}, new \in {Metadata(dirs', last'.id)} :
                      /\ DictGet(new, K_title) =
                            (IF SuppliedNonEmpty(last'.title) THEN last'.title[1]
                             ELSE DictGet(old, K_title))
                      /\ DictGet(new, K_memo) =
                            (IF SuppliedNonEmpty(last'.memo) THEN last'.memo[1]
                             ELSE DictGet(old, K_memo))
      ]_vars

\* An edit with a new title and an empty --memo has succeeded on a record whose memo
\* is not empty.
C3_Witness ==
    /\ last.op = "edit"
    /\ last.exit = 0
    /\ last.title = Some(<<"N">>)
    /\ last.memo = Some(<<>>)
    /\ DictGet(Metadata(dirs, last.id), K_title) = <<"N">>
    /\ DictGet(Metadata(dirs, last.id), K_memo) = <<"m", LF>>

----------------------------------------------------------------------------
(* C4 *)

\* C4 as stated: after a successful edit, updated_at is strictly greater than it was.
C4_UpdatedAtStrictlyGreater ==
    [][ (last = Prompt /\ last'.op = "edit" /\ last'.exit = 0) =>
            \A old \in {Metadata(dirs, last'.id)}, new \in {Metadata(dirs', last'.id)} :
                TimeOf(DictGet(new, K_updated_at)) > TimeOf(DictGet(old, K_updated_at))
      ]_vars

\* C4 as amended: after a successful edit, updated_at is the reading of the wall
\* clock taken by that edit, so it is greater than before exactly when that reading
\* is later than the value stored before.
C4_UpdatedAtIsClockReading ==
    [][ (last = Prompt /\ last'.op = "edit" /\ last'.exit = 0) =>
            \A old \in {Metadata(dirs, last'.id)}, new \in {Metadata(dirs', last'.id)} :
                LET before == TimeOf(DictGet(old, K_updated_at))
                    after == TimeOf(DictGet(new, K_updated_at))
                IN  /\ DictGet(new, K_updated_at) = isoformat(now)
                    /\ (after > before) <=> (now > before)
      ]_vars

\* An edit has succeeded after the clock was set back: updated_at is earlier than
\* created_at.
C4_Witness ==
    /\ last.op = "edit"
    /\ last.exit = 0
    /\ TimeOf(DictGet(Metadata(dirs, last.id), K_updated_at))
          < TimeOf(DictGet(Metadata(dirs, last.id), K_created_at))

----------------------------------------------------------------------------
(* C5 *)

\* C5: after a successful delete of an id the record directory does not exist: show,
\* info, edit and delete of that id fail with exit status 1 and a not-found error,
\* and an add of that id is not refused as an id in use.
C5_DeletedIsNotFound ==
    (last.op = "delete" /\ last.exit = 0) =>
        /\ ~BookDirExists(dirs, last.id)
        /\ \A r \in {run_show(dirs, last.id), run_info(dirs, last.id),
                     run_edit(dirs, last.id, None, None, now),
                     run_delete(dirs, last.id)} :
               r.exit = 1 /\ r.err = "not_found"
        /\ \A path \in DOMAIN cwd, title \in AddTitles :
               run_add(dirs, cwd, path, last.id, title, None, None, now).err # "id_in_use"

----------------------------------------------------------------------------
(* C6 *)

\* The rows of a list output whose id column is id.
RowsOf(out, id) == {i \in 2..Len(out) : out[i][1] = <<id>>}

\* C6: when SHELF_DIR has at least one entry, list exits 0 and prints the header and
\* then exactly one row for each directory that holds its own metadata file, with
\* the fields of that file; directories without one and regular files give no row.
C6_ListOneRowPerRecord ==
    (last.op = "list" /\ ~ShelfIsEmpty(dirs, files)) =>
        /\ last.exit = 0
        /\ last.out[1] = FieldNames
        /\ Len(last.out) = 1 + Cardinality({d \in DOMAIN dirs : HasMetadata(dirs, d)})
        /\ \A d \in DOMAIN dirs : HasMetadata(dirs, d) =>
              /\ Cardinality(RowsOf(last.out, d)) = 1
              /\ \A i \in RowsOf(last.out, d), m \in {Metadata(dirs, d)} :
                     last.out[i] = <<DictGet(m, K_id), DictGet(m, K_title),
                                     DictGet(m, K_memo), DictGet(m, K_created_at),
                                     DictGet(m, K_updated_at)>>

----------------------------------------------------------------------------
(* C7 *)

\* C7: in every state of the store that holds no record with a metadata file, list
\* writes nothing to standard output and logs that the shelf is empty.
C7_NoRecordNoOutput ==
    (last.op = "list" /\ \A d \in DOMAIN dirs : ~HasMetadata(dirs, d)) =>
        (last.exit = 0 /\ last.err = "empty" /\ last.out = <<>>)

----------------------------------------------------------------------------
(* C8 *)

\* C8: an add of a source file that exists, under an id that is not in use, ends
\* with exit status 0 and leaves the metadata file of the record, whatever the
\* extraction does.
C8_ExtractionNeverAbortsAdd ==
    [][ (last = Prompt /\ last'.op = "add" /\ last'.path \in DOMAIN cwd
            /\ ~BookDirExists(dirs, last'.id))
            => (last'.exit = 0 /\ HasMetadata(dirs', last'.id)) ]_vars

----------------------------------------------------------------------------
(* C9 *)

\* C9: after a successful add of a plain-text source, show of that id exits 0 and
\* prints exactly the content of the source.
C9_AddThenShowReturnsContent ==
    (last.op = "add" /\ last.exit = 0 /\ Lower(last.path[2]) = "txt") =>
        \A r \in {run_show(dirs, last.id)} :
            r.exit = 0 /\ r.out = << <<cwd[last.path]>> >>

----------------------------------------------------------------------------
(* C10 *)

\* C10: after a successful add the record directory holds, under the base name of
\* the source, a file with exactly the content of the source.
C10_SourceCopiedVerbatim ==
    (last.op = "add" /\ last.exit = 0) =>
        /\ last.path \in DOMAIN dirs[last.id]
        /\ dirs[last.id][last.path] = cwd[last.path]

----------------------------------------------------------------------------
(* C11 *)

\* C11: in every state of the store, a metadata file that is present is a complete
\* JSON object with exactly the fields id, title, memo, created_at and updated_at,
\* and its id is the name of the directory that holds it.
C11_MetadataAlwaysValid ==
    \A d \in DOMAIN dirs : HasMetadata(dirs, d) =>
        \A r \in {json_loads(dirs[d][JsonName(d)])} :
            /\ r.ok
            /\ Len(r.val) = Len(FieldNames)
            /\ \A j \in DOMAIN FieldNames : DictHas(r.val, FieldNames[j])
            /\ DictGet(r.val, K_id) = <<d>>

----------------------------------------------------------------------------
(* C12 *)

\* The process that wrote its metadata document last.
LastWriter == CHOOSE p \in Procs : \A q \in Procs : procs[q].wrote <= procs[p].wrote

\* C12: when both concurrent adds of the same id have passed the ID collision
\* check, neither fails afterwards: each ends with exit status 0, the second mkdir
\* raising no error; and when both have ended, the metadata file begins with the
\* document of the process that wrote last, and is exactly that document unless the
\* other's document was longer.
C12_ConcurrentAddsBothSucceed ==
    (\A p \in Procs : procs[p].passed) =>
        /\ \A p \in Procs : procs[p].pc = "done" => procs[p].exit = 0
        /\ (\A p \in Procs : procs[p].pc = "done") =>
              \A doc \in {json_dumps(RaceMetadata(LastWriter))},
                 content \in {dirs[RaceId][JsonName(RaceId)]} :
                  /\ SubSeq(content, 1, Len(doc)) = doc
                  /\ (\A q \in Procs : Len(json_dumps(RaceMetadata(q))) <= Len(doc))
                        => content = doc

\* Both adds passed the ID collision check and ended with exit status 0, and the
\* metadata file is the document of process 1, which wrote last.
C12_Witness ==
    /\ \A p \in Procs : procs[p].passed /\ procs[p].pc = "done" /\ procs[p].exit = 0
    /\ procs[1].wrote = 2
    /\ json_loads(dirs[RaceId][JsonName(RaceId)]).ok
    /\ DictGet(Metadata(dirs, RaceId), K_title) = RaceTitle(1)

----------------------------------------------------------------------------
(* C13 *)

\* C13: a delete or an edit changes only the record it names: every other record
\* directory keeps its files, a SHELF_DIR that existed still exists with the
\* regular files it had, a successful delete removes exactly the directory named, and an edit
\* changes no file of the record but its metadata file.
C13_OnlyNamedRecordChanges ==
    [][ (last = Prompt /\ last'.op \in {"delete", "edit"}) =>
            /\ \A r \in DOMAIN dirs :
                  r # last'.id => (r \in DOMAIN dirs' /\ dirs'[r] = dirs[r])
            /\ rootExists => rootExists'
            /\ files' = files
            /\ (last'.op = "delete" /\ last'.exit = 0) =>
                  DOMAIN dirs' = (DOMAIN dirs) \ {last'.id}
            /\ last'.op = "edit" =>
                  /\ DOMAIN dirs' = DOMAIN dirs
                  /\ \A r \in DOMAIN dirs : DOMAIN dirs'[r] = DOMAIN dirs[r]
                  /\ \A r \in DOMAIN dirs : \A f \in DOMAIN dirs[r] :
                        f # JsonName(r) => dirs'[r][f] = dirs[r][f]
      ]_vars

====
